---- MODULE Spec2Model ----
(***************************************************************************)
(* Model of the job orchestrator of the scraper (scraper/services.py,      *)
(* ScrapingService.start_scraping_job) together with the request handlers  *)
(* that create, cancel and restart jobs (scraper/views.py,                 *)
(* ScrapingJobViewSet).                                                    *)
(*                                                                         *)
(* Granularity: one step per database statement.  A background run and a   *)
(* request handler are threads of one server, so they interleave between   *)
(* their statements.  A network call (search, detail fetch) touches no     *)
(* shared state; it is taken in one step with the statements up to the     *)
(* next database statement.  Timestamps are None or the token Now.         *)
(***************************************************************************)
EXTENDS Integers, Sequences, FiniteSets, TLC

\* ---- bounds of the model ----
MaxEvents == 3      \* cancel / restart requests served plus database statements that raise
MaxResults == 2     \* candidates returned by one search
MaxFragments == 2   \* officer fragments found on one page
MaxNameLen == 3     \* characters of a name handed to a contact synthesizer
MaxCalls == 2       \* calls of a synthesizer and process starts that are followed
MaxAsk == 121       \* largest max_results a caller passes to the consolidation

\* ---- numbers of the program ----
SourceAsk == 50         \* max_results=50 passed to every source
LinkedInCap == 20       \* range(min(max_results, 20))
GoogleCap == 20
CrunchbaseCap == 15
DandBCap == 15

\* ---- values ----
None == "None"
Now == "now"
NoCompaniesMessage == "No companies found matching the search criteria"
ExceptionMessage == "str(e)"
OfficerNames == {"JOHN SMITH"}

\* The registry's hit list for the searched name, in the order of the result
\* page.  A company is written as its position in that list.
Catalogue == [i \in 1..MaxResults |-> i]
CompanyNumbers == {Catalogue[i] : i \in 1..MaxResults}

\* models.py ScrapingJob: the defaults of a freshly inserted row
NewJob ==
    [status |-> "pending", progress |-> 0, started_at |-> None,
     completed_at |-> None, error_message |-> ""]

STATUS_CHOICES == {"pending", "in_progress", "completed", "failed", "cancelled"}

VARIABLES
    jobs,        \* the ScrapingJob table: job id -> stored row
    runs,        \* the background threads executing start_scraping_job
    req,         \* the cancel / restart handler between its read and its write
    events,      \* requests served and database statements that raised so far
    companies,   \* the Company table: company_number -> the scraping_job of
                 \* each stored row with that number, in insertion order
    officers,    \* the Director table: set of <<company_number, name>>
    scrape,      \* the CompaniesHouseScraper client in use: where it stands
                 \* in search_company / scrape_company_details
    wire,        \* what that client's session has done: requests and sleeps
    consolidation, \* the call of get_consolidated_company_data under way
    contacts,    \* the server process and the calls of the contact
                 \* synthesizers it has answered
    dates,       \* the calls of parse_date on the spellings of one date
    parse,       \* the call of parse_director_section on one fragment
    merge        \* one pass of the job loop over one candidate, with the
                 \* records it reads and hands on

vars ==
    <<jobs, runs, req, events, companies, officers, scrape, wire, consolidation,
      contacts, dates, parse, merge>>

\* the client and the consolidation call as the job threads see them: the
\* calls of the client are taken whole by SearchOutcomes and DetailOutcomes,
\* and no job calls the consolidation, the synthesizers or the parsers
clientVars ==
    <<scrape, wire, consolidation, contacts, dates, parse, merge>>

JobIds == 1..Len(jobs)
RunIds == 1..Len(runs)

NoReq == [kind |-> "none", job |-> 0, snap |-> NewJob]

\* the frame of a thread that has not yet executed line 778
NewRun(j) ==
    [job |-> j, pc |-> "start", bound |-> FALSE, local |-> NewJob,
     results |-> << >>, idx |-> 0, processed |-> 0, handed |-> << >>,
     outcome |-> "none"]

\* the frame is gone once the function has returned; only the way it
\* returned is kept
Returned(run, how) == [NewRun(run.job) EXCEPT !.pc = "done", !.outcome = how]

\* search_company: the candidates a search can return, in discovery order
\* (the empty list also on any network error, line 64-66)
SearchOutcomes == {SubSeq(Catalogue, 1, n) : n \in 0..MaxResults}

\* scrape_company_details: None on a failed fetch, else the parsed page
NoDetail == [found |-> FALSE, directors |-> {}]
DetailOutcomes ==
    {NoDetail} \cup {[found |-> TRUE, directors |-> d] : d \in SUBSET OfficerNames}

\* what parse_director_section makes of a fragment: the officer's name, or
\* None (no keyword in the text, or no name found, line 309-311, 340-341)
FragmentNames == {"A SMITH", "B JONES"}
Parsed == FragmentNames \cup {None}

SeqsUpTo(S, n) == UNION {[1..k -> S] : k \in 0..n}

\* the fragments a page can hold, each written as what it parses to
Pages == SeqsUpTo(Parsed, MaxFragments)

\* requests.get(...) followed by raise_for_status(): a network error, a
\* timeout and a non-2xx status all raise
Responses == {[ok |-> FALSE, page |-> << >>]} \cup {[ok |-> TRUE, page |-> p] : p \in Pages}

\* the frame of a client that is not in use
NoCall ==
    [pc |-> "idle", left |-> 0, has_number |-> FALSE, directors |-> << >>,
     tried |-> << >>, result |-> [found |-> FALSE, directors |-> << >>],
     raised |-> FALSE]

\* no consolidation call is under way
NoConsolidation ==
    [pc |-> "idle", max_results |-> 0, result |-> << >>,
     web |-> [registry_ok |-> FALSE, hits |-> 0, served |-> {}, page |-> << >>,
              linkedin |-> FALSE, google |-> FALSE, crunchbase |-> FALSE,
              dandb |-> FALSE]]

\* the job loop is not looked at one pass at a time
NoMerge == [pc |-> "idle"]

\* no call of a contact synthesizer has been made
NoContacts == [pc |-> "idle"]

\* no call of parse_date is under way
NoDates == [pc |-> "idle"]

\* no call of parse_director_section is under way
NoParse == [pc |-> "idle"]

\* perform_create has inserted the row of job 1 and started its thread
\* (views.py line 70-80); no company has been stored yet
Init ==
    /\ jobs = <<NewJob>>
    /\ runs = <<NewRun(1)>>
    /\ req = NoReq
    /\ events = 0
    /\ companies = [n \in CompanyNumbers |-> << >>]
    /\ officers = {}
    /\ merge = NoMerge
    /\ scrape = NoCall
    /\ wire = << >>
    /\ consolidation = NoConsolidation
    /\ contacts = NoContacts
    /\ dates = NoDates
    /\ parse = NoParse

\* ---------------------------------------------------------------------
\* views.py: ScrapingJobViewSet
\* ---------------------------------------------------------------------

\* one handler at a time is between its read and its write
CanRequest == req.kind = "none" /\ events < MaxEvents

CanCancel(row) == row.status \in {"pending", "in_progress"}

CancelledRow(row) == [row EXCEPT !.status = "cancelled", !.completed_at = Now]

\* cancel, line 89-91: get_object() reads the row and the status is tested
CancelRead(j) ==
    /\ CanRequest
    /\ CanCancel(jobs[j])
    /\ req' = [kind |-> "cancel", job |-> j, snap |-> jobs[j]]
    /\ events' = events + 1
    /\ UNCHANGED <<jobs, runs, companies, officers, clientVars>>

\* cancel, line 97-101: the request is answered with 400
CancelReject(j) ==
    /\ CanRequest
    /\ ~CanCancel(jobs[j])
    /\ events' = events + 1
    /\ UNCHANGED <<jobs, runs, req, companies, officers, clientVars>>

\* cancel, line 92-94: job.save() writes every field of the object read
CancelWrite ==
    /\ req.kind = "cancel"
    /\ jobs' = [jobs EXCEPT ![req.job] = CancelledRow(req.snap)]
    /\ req' = NoReq
    /\ UNCHANGED <<runs, events, companies, officers, clientVars>>

CanRestart(row) == row.status \in {"failed", "cancelled"}

\* mutant: the restart forgets to clear the error message (line 115)
RestartedRowKeepsError(row) ==
    [row EXCEPT !.status = "pending", !.started_at = None,
                !.completed_at = None, !.progress = 0]

RestartedRow(row) ==
    [row EXCEPT !.status = "pending", !.started_at = None,
                !.completed_at = None, !.progress = 0, !.error_message = ""]

\* restart, line 108-110
RestartRead(j) ==
    /\ CanRequest
    /\ CanRestart(jobs[j])
    /\ req' = [kind |-> "restart", job |-> j, snap |-> jobs[j]]
    /\ events' = events + 1
    /\ UNCHANGED <<jobs, runs, companies, officers, clientVars>>

\* restart, line 128-132
RestartReject(j) ==
    /\ CanRequest
    /\ ~CanRestart(jobs[j])
    /\ events' = events + 1
    /\ UNCHANGED <<jobs, runs, req, companies, officers, clientVars>>

\* restart, line 111-125: the row is written and a new thread is started
RestartWrite ==
    /\ req.kind = "restart"
    /\ jobs' = [jobs EXCEPT ![req.job] = RestartedRow(req.snap)]
    /\ runs' = Append(runs, NewRun(req.job))
    /\ req' = NoReq
    /\ UNCHANGED <<events, companies, officers, clientVars>>

\* ---------------------------------------------------------------------
\* services.py: ScrapingService.start_scraping_job
\* ---------------------------------------------------------------------

\* mutant: only a job that is already running is left alone
IsNotRunning(row) == row.status # "in_progress"

IsPending(row) == row.status = "pending"

\* mutant: the transition forgets progress = 0 (line 786)
StartedRowKeepsProgress(row) ==
    [row EXCEPT !.status = "in_progress", !.started_at = Now]

StartedRow(row) ==
    [row EXCEPT !.status = "in_progress", !.started_at = Now, !.progress = 0]

\* int((processed / total_companies) * 100)
Progress(processed, total) == (processed * 100) \div total

\* mutant: the empty-search branch forgets completed_at (line 797)
NoResultsRowNoTimestamp(row) ==
    [row EXCEPT !.status = "failed", !.error_message = NoCompaniesMessage]

NoResultsRow(row) ==
    [row EXCEPT !.status = "failed", !.error_message = NoCompaniesMessage,
                !.completed_at = Now]

\* mutant: the final write forgets status = completed (line 826)
CompletedRowKeepsStatus(row) ==
    [row EXCEPT !.progress = 100, !.completed_at = Now]

CompletedRow(row) ==
    [row EXCEPT !.status = "completed", !.progress = 100, !.completed_at = Now]

FailedRow(row) ==
    [row EXCEPT !.status = "failed", !.error_message = ExceptionMessage,
                !.completed_at = Now]

CanFault == events < MaxEvents

\* line 778 raises: the name job is never bound
StartLoadFails(r) ==
    /\ runs[r].pc = "start"
    /\ CanFault
    /\ events' = events + 1
    /\ runs' = [runs EXCEPT ![r].pc = "except"]
    /\ UNCHANGED <<jobs, req, companies, officers, clientVars>>

\* line 778-782: the row is read under its lock and is not pending
StartNotPending(r) ==
    /\ runs[r].pc = "start"
    /\ ~IsPending(jobs[runs[r].job])
    /\ runs' = [runs EXCEPT ![r] = Returned(runs[r], "not_pending")]
    /\ UNCHANGED <<jobs, req, events, companies, officers, clientVars>>

\* line 777-787: pending -> in_progress in one transaction
StartPending(r) ==
    /\ runs[r].pc = "start"
    /\ IsPending(jobs[runs[r].job])
    /\ LET row == StartedRow(jobs[runs[r].job])
       IN /\ jobs' = [jobs EXCEPT ![runs[r].job] = row]
          /\ runs' = [runs EXCEPT ![r].pc = "search", ![r].bound = TRUE,
                                  ![r].local = row]
    /\ UNCHANGED <<req, events, companies, officers, clientVars>>

\* line 787 raises: the transaction is rolled back, the object keeps its fields
StartSaveFails(r) ==
    /\ runs[r].pc = "start"
    /\ IsPending(jobs[runs[r].job])
    /\ CanFault
    /\ events' = events + 1
    /\ runs' = [runs EXCEPT ![r].pc = "except", ![r].bound = TRUE,
                            ![r].local = StartedRow(jobs[runs[r].job])]
    /\ UNCHANGED <<jobs, req, companies, officers, clientVars>>

\* line 792, 801-802: the search returns candidates
SearchFound(r) ==
    /\ runs[r].pc = "search"
    /\ \E res \in SearchOutcomes :
          /\ Len(res) > 0
          /\ runs' = [runs EXCEPT ![r].pc = "loop", ![r].results = res]
    /\ UNCHANGED <<jobs, req, events, companies, officers, clientVars>>

\* line 792-799: the search returns nothing, job.save() writes every field
SearchEmpty(r) ==
    /\ runs[r].pc = "search"
    /\ << >> \in SearchOutcomes
    /\ jobs' = [jobs EXCEPT ![runs[r].job] = NoResultsRow(runs[r].local)]
    /\ runs' = [runs EXCEPT ![r] = Returned(runs[r], "no_results")]
    /\ UNCHANGED <<req, events, companies, officers, clientVars>>

\* line 798 raises
SearchEmptySaveFails(r) ==
    /\ runs[r].pc = "search"
    /\ << >> \in SearchOutcomes
    /\ CanFault
    /\ events' = events + 1
    /\ runs' = [runs EXCEPT ![r].pc = "except",
                            ![r].local = NoResultsRow(runs[r].local)]
    /\ UNCHANGED <<jobs, req, companies, officers, clientVars>>

\* line 807-808: job.save(update_fields=['progress'])
UpdateProgress(r) ==
    /\ runs[r].pc = "loop"
    /\ runs[r].idx < Len(runs[r].results)
    /\ LET p == Progress(runs[r].processed, Len(runs[r].results))
       IN /\ jobs' = [jobs EXCEPT ![runs[r].job].progress = p]
          /\ runs' = [runs EXCEPT ![r].pc = "candidate", ![r].local.progress = p]
    /\ UNCHANGED <<req, events, companies, officers, clientVars>>

\* line 808 raises: caught at line 821, the candidate is skipped
UpdateProgressFails(r) ==
    /\ runs[r].pc = "loop"
    /\ runs[r].idx < Len(runs[r].results)
    /\ CanFault
    /\ events' = events + 1
    /\ runs' = [runs EXCEPT ![r].idx = @ + 1,
                            ![r].local.progress =
                                Progress(runs[r].processed, Len(runs[r].results))]
    /\ UNCHANGED <<jobs, req, companies, officers, clientVars>>

\* company_result.update(detailed_data), line 813-814
Merged(number, detail) ==
    [company_number |-> number,
     directors |-> IF detail.found THEN detail.directors ELSE {}]

\* mutant: the loop walks the search results from the last to the first
CurrentReversed(run) == run.results[Len(run.results) - run.idx]

\* the candidate the loop is at (0-based idx)
Current(run) == run.results[run.idx + 1]

\* mutant: the UPDATE leaves scraping_job as it was
KeptRows(rows, job) == rows

\* update_or_create, the UPDATE of the row found: its defaults are written,
\* among them scraping_job (line 998)
UpdatedRows(rows, job) == [rows EXCEPT ![1] = job]

\* mutant: company_number is not declared unique, every INSERT succeeds
NeverViolated(rows) == FALSE

\* models.py line 37, unique=True: an INSERT of a company_number that some
\* row already has raises IntegrityError
UniqueViolation(rows) == rows # << >>

\* line 811-819 with save_company_data: the detail fetch (every candidate of
\* search_company carries a url, line 95 and 116), then the lookup of
\* update_or_create by company_number.  A row that is found is locked and
\* updated in the same transaction and the directors are stored by
\* update_or_create on (company, name); without a row the INSERT follows.
ProcessCandidate(r) ==
    /\ runs[r].pc = "candidate"
    /\ \E d \in DetailOutcomes :
          LET rec == Merged(Current(runs[r]), d)
              rows == companies[rec.company_number]
          IN IF rows # << >>
             THEN /\ companies' = [companies EXCEPT ![rec.company_number] =
                                        UpdatedRows(rows, runs[r].job)]
                  /\ officers' = officers \cup
                              {<<rec.company_number, o>> : o \in rec.directors}
                  /\ runs' = [runs EXCEPT ![r].pc = "loop", ![r].idx = @ + 1,
                                     ![r].processed = @ + 1,
                                     ![r].handed = Append(@, rec.company_number)]
             ELSE /\ runs' = [runs EXCEPT ![r].pc = "create",
                                     ![r].handed = Append(@, rec.company_number)]
                  /\ UNCHANGED <<companies, officers>>
    /\ UNCHANGED <<jobs, req, events, clientVars>>

\* update_or_create, the INSERT after a lookup that found no row.  When
\* another thread has stored the number in between, the IntegrityError is
\* caught, the row is read again and updated.  Then line 1002-1004; the
\* directors of the detail fetched at line 813 are first looked at here.
CreateCompany(r) ==
    /\ runs[r].pc = "create"
    /\ \E d \in DetailOutcomes :
          LET rec == Merged(Current(runs[r]), d)
              rows == companies[rec.company_number]
          IN /\ companies' = [companies EXCEPT ![rec.company_number] =
                                 IF UniqueViolation(rows)
                                 THEN UpdatedRows(rows, runs[r].job)
                                 ELSE Append(rows, runs[r].job)]
             /\ officers' = officers \cup
                              {<<rec.company_number, o>> : o \in rec.directors}
             /\ runs' = [runs EXCEPT ![r].pc = "loop", ![r].idx = @ + 1,
                                     ![r].processed = @ + 1]
    /\ UNCHANGED <<jobs, req, events, clientVars>>

\* mutant: no handler at line 821, the exception leaves the loop
ProcessCandidateAborts(r) ==
    /\ runs[r].pc = "candidate"
    /\ CanFault
    /\ events' = events + 1
    /\ runs' = [runs EXCEPT ![r].pc = "except"]
    /\ UNCHANGED <<jobs, req, companies, officers, clientVars>>

\* update_or_create raises: re-raised at line 1011, caught at line 821
ProcessCandidateFails(r) ==
    /\ runs[r].pc = "candidate"
    /\ CanFault
    /\ events' = events + 1
    /\ runs' = [runs EXCEPT ![r].pc = "loop", ![r].idx = @ + 1,
                            ![r].handed = Append(@, Current(runs[r]))]
    /\ UNCHANGED <<jobs, req, companies, officers, clientVars>>

\* line 826-829: job.save() writes every field of the thread's object
Complete(r) ==
    /\ runs[r].pc = "loop"
    /\ runs[r].idx = Len(runs[r].results)
    /\ jobs' = [jobs EXCEPT ![runs[r].job] = CompletedRow(runs[r].local)]
    /\ runs' = [runs EXCEPT ![r] = Returned(runs[r], "completed")]
    /\ UNCHANGED <<req, events, companies, officers, clientVars>>

\* line 829 raises
CompleteSaveFails(r) ==
    /\ runs[r].pc = "loop"
    /\ runs[r].idx = Len(runs[r].results)
    /\ CanFault
    /\ events' = events + 1
    /\ runs' = [runs EXCEPT ![r].pc = "except",
                            ![r].local = CompletedRow(runs[r].local)]
    /\ UNCHANGED <<jobs, req, companies, officers, clientVars>>

\* line 840-841: what becomes of the thread when line 836-839 raises
Swallowed(run) == Returned(run, "swallowed")

\* line 833-839: the fallback write
Fallback(r) ==
    /\ runs[r].pc = "except"
    /\ runs[r].bound
    /\ jobs' = [jobs EXCEPT ![runs[r].job] = FailedRow(runs[r].local)]
    /\ runs' = [runs EXCEPT ![r] = Returned(runs[r], "failed")]
    /\ UNCHANGED <<req, events, companies, officers, clientVars>>

\* line 836: job is unbound, the NameError is swallowed at line 840
FallbackUnbound(r) ==
    /\ runs[r].pc = "except"
    /\ ~runs[r].bound
    /\ runs' = [runs EXCEPT ![r] = Swallowed(runs[r])]
    /\ UNCHANGED <<jobs, req, events, companies, officers, clientVars>>

\* line 839 raises: swallowed at line 840
FallbackSaveFails(r) ==
    /\ runs[r].pc = "except"
    /\ runs[r].bound
    /\ CanFault
    /\ events' = events + 1
    /\ runs' = [runs EXCEPT ![r] = Swallowed(runs[r])]
    /\ UNCHANGED <<jobs, req, companies, officers, clientVars>>

Next ==
    \/ \E j \in JobIds : CancelRead(j)
    \/ \E j \in JobIds : CancelReject(j)
    \/ CancelWrite
    \/ \E j \in JobIds : RestartRead(j)
    \/ \E j \in JobIds : RestartReject(j)
    \/ RestartWrite
    \/ \E r \in RunIds : StartLoadFails(r)
    \/ \E r \in RunIds : StartNotPending(r)
    \/ \E r \in RunIds : StartPending(r)
    \/ \E r \in RunIds : StartSaveFails(r)
    \/ \E r \in RunIds : SearchFound(r)
    \/ \E r \in RunIds : SearchEmpty(r)
    \/ \E r \in RunIds : SearchEmptySaveFails(r)
    \/ \E r \in RunIds : UpdateProgress(r)
    \/ \E r \in RunIds : UpdateProgressFails(r)
    \/ \E r \in RunIds : ProcessCandidate(r)
    \/ \E r \in RunIds : CreateCompany(r)
    \/ \E r \in RunIds : ProcessCandidateFails(r)
    \/ \E r \in RunIds : Complete(r)
    \/ \E r \in RunIds : CompleteSaveFails(r)
    \/ \E r \in RunIds : Fallback(r)
    \/ \E r \in RunIds : FallbackUnbound(r)
    \/ \E r \in RunIds : FallbackSaveFails(r)

Spec == Init /\ [][Next]_vars

\* perform_create has been served twice: two jobs searching the same name,
\* each with its thread
InitTwoJobs ==
    /\ jobs = <<NewJob, NewJob>>
    /\ runs = <<NewRun(1), NewRun(2)>>
    /\ req = NoReq
    /\ events = 0
    /\ companies = [n \in CompanyNumbers |-> << >>]
    /\ officers = {}
    /\ merge = NoMerge
    /\ scrape = NoCall
    /\ wire = << >>
    /\ consolidation = NoConsolidation
    /\ contacts = NoContacts
    /\ dates = NoDates
    /\ parse = NoParse

\* the two threads run side by side; nobody cancels or restarts, so each
\* thread finds its job pending
NextTwoJobs ==
    \/ \E r \in RunIds : StartLoadFails(r)
    \/ \E r \in RunIds : StartPending(r)
    \/ \E r \in RunIds : StartSaveFails(r)
    \/ \E r \in RunIds : SearchFound(r)
    \/ \E r \in RunIds : SearchEmpty(r)
    \/ \E r \in RunIds : SearchEmptySaveFails(r)
    \/ \E r \in RunIds : UpdateProgress(r)
    \/ \E r \in RunIds : UpdateProgressFails(r)
    \/ \E r \in RunIds : ProcessCandidate(r)
    \/ \E r \in RunIds : CreateCompany(r)
    \/ \E r \in RunIds : ProcessCandidateFails(r)
    \/ \E r \in RunIds : Complete(r)
    \/ \E r \in RunIds : CompleteSaveFails(r)
    \/ \E r \in RunIds : Fallback(r)
    \/ \E r \in RunIds : FallbackUnbound(r)
    \/ \E r \in RunIds : FallbackSaveFails(r)

SpecTwoJobs == InitTwoJobs /\ [][NextTwoJobs]_vars

\* the next statement of thread r, whichever way it ends
RunStep(r) ==
    \/ StartLoadFails(r) \/ StartNotPending(r) \/ StartPending(r)
    \/ StartSaveFails(r) \/ SearchFound(r) \/ SearchEmpty(r)
    \/ SearchEmptySaveFails(r) \/ UpdateProgress(r) \/ UpdateProgressFails(r)
    \/ ProcessCandidate(r) \/ CreateCompany(r) \/ ProcessCandidateFails(r)
    \/ Complete(r) \/ CompleteSaveFails(r) \/ Fallback(r)
    \/ FallbackUnbound(r) \/ FallbackSaveFails(r)

\* Every run is a thread of its own (threading.Thread(...).start(), views.py
\* line 76-80 and 118-123): every fetch it makes returns or times out after
\* 30 s and no statement waits for another thread longer than a
\* transaction, so while some thread has not returned, some thread executes
\* its next statement.  (That each thread is scheduled again and again
\* implies this.)  Requests are under no such obligation: nobody has to
\* cancel or restart.
SpecFair == Spec /\ WF_vars(\E r \in RunIds : RunStep(r))

\* ---------------------------------------------------------------------
\* services.py: CompaniesHouseScraper, one client as a job uses it: one
\* search_company, then scrape_company_details for each hit (line 792 and
\* 811-813).  One step per request of the session.
\* ---------------------------------------------------------------------

Request(kind, ok) == [kind |-> kind, ok |-> ok]
Sleep == [kind |-> "sleep", ok |-> TRUE]

InitClient ==
    /\ jobs = <<NewJob>>
    /\ runs = << >>
    /\ req = NoReq
    /\ events = 0
    /\ companies = [n \in CompanyNumbers |-> << >>]
    /\ officers = {}
    /\ merge = NoMerge
    /\ scrape = [NoCall EXCEPT !.pc = "search"]
    /\ wire = << >>
    /\ consolidation = NoConsolidation
    /\ contacts = NoContacts
    /\ dates = NoDates
    /\ parse = NoParse

jobVars == <<jobs, runs, req, events, companies, officers>>

\* line 45-66: what search_company hands back for a response; an exception
\* of the request is caught at line 64
SearchReturn(resp, hits) ==
    IF resp.ok THEN [raised |-> FALSE, hits |-> hits]
               ELSE [raised |-> FALSE, hits |-> 0]

\* search_company: one request, no sleep
SearchCompany ==
    /\ scrape.pc = "search"
    /\ \E ok \in BOOLEAN, hits \in 0..MaxResults :
          LET ret == SearchReturn([ok |-> ok], hits)
          IN /\ wire' = Append(wire, Request("search", ok))
             /\ scrape' = [scrape EXCEPT !.pc = "ready", !.left = ret.hits,
                                         !.raised = ret.raised]
    /\ UNCHANGED <<jobVars, consolidation, contacts, dates, parse, merge>>

\* line 122-138: what scrape_company_details hands back when its own
\* request fails; the exception is caught at line 136
DetailFailed ==
    [raised |-> FALSE, result |-> [found |-> FALSE, directors |-> << >>]]

\* scrape_company_details, line 125-129: the request for the detail page of
\* the next hit.  The URL holds a company number or not (line 488).
ScrapeCompanyDetails ==
    /\ scrape.pc = "ready"
    /\ scrape.left > 0
    /\ \E ok \in BOOLEAN, n \in BOOLEAN :
          /\ wire' = Append(wire, Request("detail", ok))
          /\ scrape' =
                IF ok
                THEN [scrape EXCEPT !.pc = "constructed", !.has_number = n,
                                    !.directors = << >>, !.tried = << >>,
                                    !.left = @ - 1]
                ELSE [scrape EXCEPT !.pc = "ready", !.has_number = n,
                                    !.directors = << >>, !.tried = << >>,
                                    !.left = @ - 1,
                                    !.result = DetailFailed.result,
                                    !.raised = DetailFailed.raised]
    /\ UNCHANGED <<jobVars, consolidation, contacts, dates, parse, merge>>

RECURSIVE DedupByName(_, _)
\* line 287-292: a fragment is kept when it has a name that no officer kept
\* before it has
DedupByName(page, kept) ==
    IF page = << >> THEN kept
    ELSE LET f == Head(page)
         IN DedupByName(Tail(page),
                IF f # None /\ \A i \in 1..Len(kept) : kept[i] # f
                THEN Append(kept, f) ELSE kept)

\* mutant: the officers page lets the exception of its request through
DirectorsPageRaises(resp) ==
    IF resp.ok THEN [raised |-> FALSE, directors |-> DedupByName(resp.page, << >>)]
               ELSE [raised |-> TRUE, directors |-> << >>]

\* line 244-300: what scrape_directors_page hands back for a response; an
\* exception of the request is caught at line 297 with directors still empty
DirectorsPage(resp) ==
    IF resp.ok THEN [raised |-> FALSE, directors |-> DedupByName(resp.page, << >>)]
               ELSE [raised |-> FALSE, directors |-> << >>]

\* line 250-294 as the session sees it: the request, and the sleep of line
\* 294 when nothing raised before it
DirectorsPageWire(resp) ==
    IF resp.ok THEN <<Request("officers", TRUE), Sleep>>
               ELSE <<Request("officers", FALSE)>>

\* the outcome of one step of the chain of extract_directors
Tried(step, got) == [step |-> step, got |-> got]

\* extract_directors, line 219-224: a number in the URL, the officers URL
\* is built from it and fetched
ScrapeConstructed ==
    /\ scrape.pc = "constructed"
    /\ scrape.has_number
    /\ \E resp \in Responses :
          LET ret == DirectorsPage(resp)
          IN /\ wire' = wire \o DirectorsPageWire(resp)
             /\ scrape' = [scrape EXCEPT !.pc = "link",
                                         !.directors = ret.directors,
                                         !.raised = ret.raised,
                                         !.tried = Append(@, Tried("constructed",
                                                                 ret.directors))]
    /\ UNCHANGED <<jobVars, consolidation, contacts, dates, parse, merge>>

\* line 221: no number in the URL
SkipConstructed ==
    /\ scrape.pc = "constructed"
    /\ ~scrape.has_number
    /\ scrape' = [scrape EXCEPT !.pc = "link"]
    /\ UNCHANGED <<jobVars, wire, consolidation, contacts, dates, parse, merge>>

\* mutant: the fallbacks run whatever the earlier steps returned
Whatever(directors) == TRUE

\* line 227 and 234: if not directors
NoneSoFar(directors) == directors = << >>

\* line 227-231: no officer so far and the detail page links to an officers
\* page, which is fetched
ScrapeLink ==
    /\ scrape.pc = "link"
    /\ NoneSoFar(scrape.directors)
    /\ \E resp \in Responses :
          LET ret == DirectorsPage(resp)
          IN /\ wire' = wire \o DirectorsPageWire(resp)
             /\ scrape' = [scrape EXCEPT !.pc = "inline",
                                         !.directors = ret.directors,
                                         !.raised = ret.raised,
                                         !.tried = Append(@, Tried("link",
                                                                 ret.directors))]
    /\ UNCHANGED <<jobVars, consolidation, contacts, dates, parse, merge>>

\* line 227-229: an officer was found before, or the page has no such link
SkipLink ==
    /\ scrape.pc = "link"
    /\ scrape' = [scrape EXCEPT !.pc = "inline"]
    /\ UNCHANGED <<jobVars, wire, consolidation, contacts, dates, parse, merge>>

\* line 236-239: every fragment that parses is appended
KeepParsed(page) == SelectSeq(page, LAMBDA f : f # None)

\* line 234-239: no officer so far, the fragments of the detail page itself
ExtractInline ==
    /\ scrape.pc = "inline"
    /\ NoneSoFar(scrape.directors)
    /\ \E page \in Pages :
          scrape' = [scrape EXCEPT !.pc = "cooldown",
                                   !.directors = KeepParsed(page),
                                   !.tried = Append(@, Tried("inline",
                                                           KeepParsed(page)))]
    /\ UNCHANGED <<jobVars, wire, consolidation, contacts, dates, parse, merge>>

\* line 234: an officer was found before
SkipInline ==
    /\ scrape.pc = "inline"
    /\ ~NoneSoFar(scrape.directors)
    /\ scrape' = [scrape EXCEPT !.pc = "cooldown"]
    /\ UNCHANGED <<jobVars, wire, consolidation, contacts, dates, parse, merge>>

\* line 132-134: the sleep of scrape_company_details, then its return
Cooldown ==
    /\ scrape.pc = "cooldown"
    /\ wire' = Append(wire, Sleep)
    /\ scrape' = [scrape EXCEPT !.pc = "ready",
                                !.result = [found |-> TRUE,
                                            directors |-> scrape.directors]]
    /\ UNCHANGED <<jobVars, consolidation, contacts, dates, parse, merge>>

NextClient ==
    \/ SearchCompany
    \/ ScrapeCompanyDetails
    \/ ScrapeConstructed
    \/ SkipConstructed
    \/ ScrapeLink
    \/ SkipLink
    \/ ExtractInline
    \/ SkipInline
    \/ Cooldown

SpecClient == InitClient /\ [][NextClient]_vars

\* ---------------------------------------------------------------------
\* services.py: ScrapingService.get_consolidated_company_data
\* ---------------------------------------------------------------------

Min(a, b) == IF a < b THEN a ELSE b

\* an officer as parse_director_section returns it: resigned_on is None
\* unless a resignation date was parsed (line 381-385), officer_role is
\* the word the role pattern matched, as written on the page, and the key is
\* missing when no pattern matched (line 353-357)
Missing == "<missing>"
RoleTexts == {"Director", "DIRECTOR", "Secretary"}
Officers ==
    [name : {"A SMITH"}, resigned_on : {None, "2020-01-31"},
     officer_role : RoleTexts \cup {Missing}]
OfficerLists == SeqsUpTo(Officers, MaxFragments)

\* str.lower() on the role texts
Lower(text) ==
    CASE text = "Director" -> "director"
      [] text = "DIRECTOR" -> "director"
      [] text = "Secretary" -> "secretary"
      [] text = "" -> ""

\* 'director' in text, for lowered role texts
ContainsDirector(text) == text \in {"director"}

\* director.get('officer_role', '')
RoleOf(director) ==
    IF director.officer_role = Missing THEN "" ELSE director.officer_role

\* what the sources answer to one call.  The registry lists `hits` companies
\* for the name; the detail requests of the hits in `served` succeed and
\* show the officers of `page`, the others fail.  Each other source
\* answers its search or fails.
SizeInputs ==
    [registry_ok : BOOLEAN, hits : 0..(SourceAsk + 1), served : {{}},
     page : {<< >>}, linkedin : BOOLEAN, google : BOOLEAN,
     crunchbase : BOOLEAN, dandb : BOOLEAN]

OfficerInputs ==
    {[registry_ok |-> TRUE, hits |-> h, served |-> sv, page |-> pg,
      linkedin |-> b, google |-> b, crunchbase |-> b, dandb |-> b] :
        h \in 0..MaxResults, sv \in SUBSET (1..MaxResults),
        pg \in OfficerLists, b \in BOOLEAN}

\* a view has called get_consolidated_company_data(name, max_results): every
\* size of hit list and every max_results with officers out of the picture,
\* and every officer list on short hit lists
InitConsolidation ==
    /\ jobs = <<NewJob>>
    /\ runs = << >>
    /\ req = NoReq
    /\ events = 0
    /\ companies = [n \in CompanyNumbers |-> << >>]
    /\ officers = {}
    /\ merge = NoMerge
    /\ scrape = NoCall
    /\ wire = << >>
    /\ contacts = NoContacts
    /\ dates = NoDates
    /\ parse = NoParse
    /\ \/ \E w \in SizeInputs, m \in 0..MaxAsk :
             /\ (~w.registry_ok => w.hits = 0)
             /\ consolidation = [pc |-> "called", max_results |-> m,
                                 result |-> << >>, web |-> w]
       \/ \E w \in OfficerInputs :
             /\ w.served \subseteq 1..w.hits
             /\ consolidation = [pc |-> "called", max_results |-> MaxAsk,
                                 result |-> << >>, web |-> w]

Entries(source, n) == [i \in 1..n |-> [source |-> source, index |-> i]]

\* line 866-869: the registry's search, result_items[:max_results] (line 75)
\* with max_results=50, [] when the request fails (line 64-66)
CompaniesHouseResults(web) ==
    IF web.registry_ok THEN Entries("companies_house", Min(web.hits, SourceAsk))
                       ELSE << >>

\* line 537-574 and alike: range(min(max_results, cap)) entries, [] when the
\* request fails
SourceResults(source, ok, cap) ==
    IF ok THEN Entries(source, Min(SourceAsk, cap)) ELSE << >>

\* mutant: the failure of one source leaves the call with nothing
AllOrNothing(web) ==
    IF web.registry_ok /\ web.linkedin /\ web.google /\ web.crunchbase /\ web.dandb
    THEN CompaniesHouseResults(web)
            \o SourceResults("linkedin", web.linkedin, LinkedInCap)
            \o SourceResults("google", web.google, GoogleCap)
            \o SourceResults("crunchbase", web.crunchbase, CrunchbaseCap)
            \o SourceResults("dandb", web.dandb, DandBCap)
    ELSE << >>

\* line 862-889
AllCompanies(web) ==
    CompaniesHouseResults(web)
        \o SourceResults("linkedin", web.linkedin, LinkedInCap)
        \o SourceResults("google", web.google, GoogleCap)
        \o SourceResults("crunchbase", web.crunchbase, CrunchbaseCap)
        \o SourceResults("dandb", web.dandb, DandBCap)

\* mutant: the list is cut from its end
LastOnes(all, max_results) ==
    SubSeq(all, Len(all) - Min(max_results, Len(all)) + 1, Len(all))

\* line 896: all_companies[:max_results], for max_results >= 0
Truncated(all, max_results) == SubSeq(all, 1, Min(max_results, Len(all)))

\* line 899-902 and 937: the directors of the merged record, [] when the
\* detail request failed and nothing was merged
DirectorsData(web, entry) ==
    IF entry.index \in web.served THEN web.page ELSE << >>

\* mutant: resigned officers are listed too
AnyDirector(director) == ContainsDirector(Lower(RoleOf(director)))

\* line 942-943
IsActiveDirector(director) ==
    /\ director.resigned_on = None
    /\ ContainsDirector(Lower(RoleOf(director)))

\* line 905-964: one ConsolidatedCompany
ConsolidatedCompany(web, entry) ==
    [source |-> entry.source, index |-> entry.index,
     directors |->
        IF entry.source = "companies_house"
        THEN SelectSeq(DirectorsData(web, entry), IsActiveDirector)
        ELSE << >>]

\* line 860-976
GetConsolidatedCompanyData(web, max_results) ==
    LET all == AllCompanies(web)
        cut == Truncated(all, max_results)
    IN IF all = << >> THEN << >>
       ELSE [i \in 1..Len(cut) |-> ConsolidatedCompany(web, cut[i])]

\* the call runs to its return; it touches no table
Consolidate ==
    /\ consolidation.pc = "called"
    /\ consolidation' =
          [consolidation EXCEPT
              !.pc = "returned",
              !.result = GetConsolidatedCompanyData(consolidation.web,
                                                    consolidation.max_results)]
    /\ UNCHANGED <<jobVars, scrape, wire, contacts, dates, parse, merge>>

NextConsolidation == Consolidate

SpecConsolidation == InitConsolidation /\ [][NextConsolidation]_vars

\* ---------------------------------------------------------------------
\* services.py: ScrapingService._generate_company_contacts and
\* _generate_director_contacts
\* ---------------------------------------------------------------------

\* a str is the sequence of its characters
NameChars == {"L", "t", "d", " ", "&"}
Names == SeqsUpTo(NameChars, MaxNameLen)

\* the company names a director's contacts are asked for: no name (the
\* anchor of the search result had no text, line 93) and "t& Ltd"
DirectorCompanyNames == {<< >>, <<"t", "&", " ", "L", "t", "d">>}

\* what hash(company_name) is in one Python process: str hashes are keyed
\* by a value drawn when the process starts
HashValues == {-1, 0, 7, 2000}

\* str.lower()
LowerChar(c) == IF c = "L" THEN "l" ELSE c
LowerStr(s) == [i \in 1..Len(s) |-> LowerChar(s[i])]

\* str.replace(old, new): the occurrences from the left, not overlapping
RECURSIVE Replace(_, _, _)
Replace(s, old, new) ==
    IF Len(s) < Len(old) THEN s
    ELSE IF SubSeq(s, 1, Len(old)) = old
         THEN new \o Replace(SubSeq(s, Len(old) + 1, Len(s)), old, new)
         ELSE <<s[1]>> \o Replace(Tail(s), old, new)

\* str.split(): the maximal runs of characters that are not whitespace
RECURSIVE Split(_)
Split(s) ==
    IF s = << >> THEN << >>
    ELSE IF s[1] = " " THEN Split(Tail(s))
    ELSE LET stops == {i \in 1..Len(s) : s[i] = " "}
             end == IF stops = {} THEN Len(s)
                    ELSE (CHOOSE i \in stops : \A j \in stops : i <= j) - 1
         IN <<SubSeq(s, 1, end)>> \o Split(SubSeq(s, end + 1, Len(s)))

\* line 1050 and 1100: the handle of the company in addresses, [:20]
CompanyNameClean(company_name) ==
    LET lowered == LowerStr(company_name)
        bare == Replace(Replace(Replace(Replace(Replace(lowered,
                    <<" ">>, << >>),
                    <<"l", "t", "d">>, << >>),
                    <<"p", "l", "c">>, << >>),
                    <<"l", "i", "m", "i", "t", "e", "d">>, << >>),
                    <<"&">>, <<"a", "n", "d">>)
    IN SubSeq(bare, 1, Min(20, Len(bare)))

\* line 1044-1087, h being hash(company_name) in the process that answers
GenerateCompanyContacts(company_name, h) ==
    IF company_name = << >> THEN << >>
    ELSE <<[type |-> "email",
            value |-> <<"info@">> \o CompanyNameClean(company_name) \o <<".co.uk">>],
           [type |-> "phone", value |-> <<7000 + (h % 2000), 1000 + (h % 9000)>>],
           [type |-> "linkedin",
            value |-> <<"https://linkedin.com/company/">>
                         \o Replace(Replace(LowerStr(company_name),
                                             <<" ">>, <<"-">>),
                                     <<"&">>, <<"a", "n", "d">>)],
           [type |-> "website",
            value |-> <<"https://www.">> \o CompanyNameClean(company_name)
                         \o <<".co.uk">>]>>

\* line 1089-1121
GenerateDirectorContacts(director_name, company_name) ==
    LET director_name_parts == Split(director_name)
        first_name == LowerStr(director_name_parts[1])
        last_name == LowerStr(director_name_parts[Len(director_name_parts)])
    IN IF director_name = << >> \/ company_name = << >> THEN << >>
       ELSE IF Len(director_name_parts) < 2 THEN << >>
       ELSE <<[type |-> "email",
               value |-> first_name \o <<".">> \o last_name \o <<"@">>
                            \o CompanyNameClean(company_name) \o <<".co.uk">>],
              [type |-> "linkedin",
               value |-> <<"https://linkedin.com/in/">> \o first_name
                            \o <<"-">> \o last_name]>>

\* a server process is up and is asked, again and again, for the contacts of
\* one company or of one director of a company
InitContacts ==
    /\ jobs = <<NewJob>>
    /\ runs = << >>
    /\ req = NoReq
    /\ events = 0
    /\ companies = [n \in CompanyNumbers |-> << >>]
    /\ officers = {}
    /\ merge = NoMerge
    /\ scrape = NoCall
    /\ wire = << >>
    /\ consolidation = NoConsolidation
    /\ dates = NoDates
    /\ parse = NoParse
    /\ \E h \in HashValues :
          \/ \E c \in Names :
                contacts = [pc |-> "serving", fn |-> "company", company_name |-> c,
                            director_name |-> << >>, hash |-> h, starts |-> 1,
                            answers |-> << >>]
          \/ \E d \in Names, c \in DirectorCompanyNames :
                contacts = [pc |-> "serving", fn |-> "director", company_name |-> c,
                            director_name |-> d, hash |-> h, starts |-> 1,
                            answers |-> << >>]

contactFrame ==
    <<jobVars, scrape, wire, consolidation, dates, parse, merge>>

\* one call of _generate_company_contacts(company_name)
CompanyContacts ==
    /\ contacts.pc = "serving"
    /\ contacts.fn = "company"
    /\ Len(contacts.answers) < MaxCalls
    /\ contacts' =
          [contacts EXCEPT
              !.answers = Append(@, GenerateCompanyContacts(contacts.company_name,
                                                            contacts.hash))]
    /\ UNCHANGED contactFrame

\* one call of _generate_director_contacts(director_name, company_name)
DirectorContacts ==
    /\ contacts.pc = "serving"
    /\ contacts.fn = "director"
    /\ Len(contacts.answers) < MaxCalls
    /\ contacts' =
          [contacts EXCEPT
              !.answers = Append(@, GenerateDirectorContacts(contacts.director_name,
                                                             contacts.company_name))]
    /\ UNCHANGED contactFrame

\* the server is started again: the new process keys its str hashes anew
StartProcess ==
    /\ contacts.pc = "serving"
    /\ contacts.starts < MaxCalls
    /\ \E h \in HashValues :
          contacts' = [contacts EXCEPT !.hash = h, !.starts = @ + 1]
    /\ UNCHANGED contactFrame

NextContacts ==
    \/ CompanyContacts
    \/ DirectorContacts
    \/ StartProcess

SpecContacts == InitContacts /\ [][NextContacts]_vars

\* ---------------------------------------------------------------------
\* services.py: CompaniesHouseScraper.parse_date
\* ---------------------------------------------------------------------

\* a date string is the sequence of its tokens: runs of digits, words and
\* the separators between them
\* a day, a month or a year in digits: days as they come, months with two
\* digits, years with four
Digits(n) ==
    CASE n = 1 -> "1" [] n = 15 -> "15" [] n = 29 -> "29" [] n = 30 -> "30"
      [] n = 31 -> "31" [] n = 2 -> "02" [] n = 3 -> "03" [] n = 5 -> "05"
      [] n = 2020 -> "2020" [] n = 2021 -> "2021"
MonthName(m) == CASE m = 2 -> "February" [] m = 3 -> "March" [] m = 5 -> "May"
MonthAbbr(m) == CASE m = 2 -> "Feb" [] m = 3 -> "Mar" [] m = 5 -> "May"

\* the four spellings of one date that the registry's pages and the spec use
Spellings(d, m, y) ==
    <<<<Digits(d), " ", MonthName(m), " ", Digits(y)>>,
      <<Digits(d), " ", MonthAbbr(m), " ", Digits(y)>>,
      <<Digits(y), "-", Digits(m), "-", Digits(d)>>,
      <<Digits(d), "/", Digits(m), "/", Digits(y)>>>>

\* strings that are no date in any of the formats
OtherTexts ==
    {<< >>, <<" ">>, <<"not a date">>,
     <<"31", " ", "Foo", " ", "2020">>,
     <<"31", " ", "02", " ", "2020">>,
     <<"2020", "/", "03", "/", "15">>,
     <<"03", "/", "15", "/", "2020">>,
     <<"15", " ", "March">>,
     <<"15", " ", "March", " ", "2020", " ", "x">>}

\* None, where a date is expected
NoDate == << >>

\* the number a run of digits stands for and how many digits it has
IsNumber(token) ==
    token \in {"1", "15", "29", "30", "31", "02", "03", "05", "2020", "2021"}
NumberOf(token) ==
    CASE token = "1" -> 1 [] token = "15" -> 15 [] token = "29" -> 29
      [] token = "30" -> 30 [] token = "31" -> 31 [] token = "02" -> 2
      [] token = "03" -> 3 [] token = "05" -> 5 [] token = "2020" -> 2020
      [] token = "2021" -> 2021
DigitsOf(token) ==
    IF token = "1" THEN 1 ELSE IF token \in {"2020", "2021"} THEN 4 ELSE 2

\* the month a month name stands for, 0 for any other word
MonthOfName(token) ==
    CASE token = "February" -> 2 [] token = "March" -> 3 [] token = "May" -> 5
      [] OTHER -> 0
MonthOfAbbr(token) ==
    CASE token = "Feb" -> 2 [] token = "Mar" -> 3 [] token = "May" -> 5
      [] OTHER -> 0

\* str.strip()
RECURSIVE Strip(_)
Strip(s) ==
    IF s = << >> THEN s
    ELSE IF s[1] = " " THEN Strip(Tail(s))
    ELSE IF s[Len(s)] = " " THEN Strip(SubSeq(s, 1, Len(s) - 1))
    ELSE s

\* whether a token is what a directive of strptime accepts
Accepts(directive, token) ==
    CASE directive = "%d" ->
            IsNumber(token) /\ DigitsOf(token) <= 2 /\ NumberOf(token) \in 1..31
      [] directive = "%m" ->
            IsNumber(token) /\ DigitsOf(token) <= 2 /\ NumberOf(token) \in 1..12
      [] directive = "%Y" -> IsNumber(token) /\ DigitsOf(token) = 4
      [] directive = "%B" -> MonthOfName(token) # 0
      [] directive = "%b" -> MonthOfAbbr(token) # 0
      [] OTHER -> token = directive

DaysIn(m, y) ==
    CASE m = 2 -> IF y % 4 = 0 /\ (y % 100 # 0 \/ y % 400 = 0) THEN 29 ELSE 28
      [] m \in {4, 6, 9, 11} -> 30
      [] OTHER -> 31

\* datetime.strptime(s, fmt).date(): NoDate stands for its ValueError
Strptime(s, fmt) ==
    IF Len(s) # Len(fmt) \/ \E i \in 1..Len(s) : ~Accepts(fmt[i], s[i])
    THEN NoDate
    ELSE LET At(directives) == CHOOSE i \in 1..Len(fmt) : fmt[i] \in directives
             d == NumberOf(s[At({"%d"})])
             y == NumberOf(s[At({"%Y"})])
             at == At({"%m", "%B", "%b"})
             m == CASE fmt[at] = "%m" -> NumberOf(s[at])
                    [] fmt[at] = "%B" -> MonthOfName(s[at])
                    [] fmt[at] = "%b" -> MonthOfAbbr(s[at])
         IN IF d <= DaysIn(m, y) THEN <<y, m, d>> ELSE NoDate

\* mutant: the last format reads month/day/year
FormatsMonthFirst ==
    <<<<"%d", " ", "%B", " ", "%Y">>, <<"%d", " ", "%b", " ", "%Y">>,
      <<"%Y", "-", "%m", "-", "%d">>, <<"%m", "/", "%d", "/", "%Y">>>>

\* line 503
Formats ==
    <<<<"%d", " ", "%B", " ", "%Y">>, <<"%d", " ", "%b", " ", "%Y">>,
      <<"%Y", "-", "%m", "-", "%d">>, <<"%d", "/", "%m", "/", "%Y">>>>

\* line 496-511: the first format that parses wins, None when none does
ParseDate(date_str) ==
    IF date_str = << >> THEN NoDate
    ELSE LET parsing == {k \in 1..Len(Formats) :
                            Strptime(Strip(date_str), Formats[k]) # NoDate}
         IN IF parsing = {} THEN NoDate
            ELSE Strptime(Strip(date_str),
                          Formats[CHOOSE k \in parsing : \A l \in parsing : k <= l])

\* parse_date is about to be called on the four spellings of one day of one
\* month, as they are or with blanks around them, or on another string
InitDates ==
    /\ jobs = <<NewJob>>
    /\ runs = << >>
    /\ req = NoReq
    /\ events = 0
    /\ companies = [n \in CompanyNumbers |-> << >>]
    /\ officers = {}
    /\ merge = NoMerge
    /\ scrape = NoCall
    /\ wire = << >>
    /\ consolidation = NoConsolidation
    /\ contacts = NoContacts
    /\ parse = NoParse
    /\ \/ \E d \in {1, 15, 29, 30, 31}, m \in {2, 3, 5}, y \in {2020, 2021},
             padded \in BOOLEAN :
             dates = [pc |-> "parsing", day |-> d, month |-> m, year |-> y,
                      texts |-> IF padded
                                THEN [k \in 1..4 |->
                                         <<" ">> \o Spellings(d, m, y)[k] \o <<" ">>]
                                ELSE Spellings(d, m, y),
                      results |-> << >>]
       \/ \E text \in OtherTexts :
             dates = [pc |-> "parsing", day |-> 0, month |-> 0, year |-> 0,
                      texts |-> <<text>>, results |-> << >>]

\* one call of parse_date, on the next of the strings
ParseDateCall ==
    /\ dates.pc = "parsing"
    /\ Len(dates.results) < Len(dates.texts)
    /\ dates' =
          [dates EXCEPT
              !.results = Append(@, ParseDate(dates.texts[Len(dates.results) + 1]))]
    /\ UNCHANGED <<jobVars, scrape, wire, consolidation, contacts, parse, merge>>

NextDates == ParseDateCall

SpecDates == InitDates /\ [][NextDates]_vars

\* ---------------------------------------------------------------------
\* services.py: CompaniesHouseScraper.parse_director_section
\* ---------------------------------------------------------------------

\* A fragment of an officers page, by what the searches of
\* parse_director_section find in it:
\*   keyword   whether its lowered text holds one of the five keywords
\*   heading   the text of its first h1..h4, strong or b, Missing without one
\*   names     what the three name patterns capture, Missing for no match
\*   role      what the first matching role pattern captures
\*   resigned  the day, word and year that a resignation pattern captures
Headings ==
    {Missing, "", "JOHN", "A SMITH", "Director", "A SMITH Director",
     "Resigned A SMITH"}
CapturedDates ==
    {<<"15", " ", "March", " ", "2020">>, <<"15", " ", "Mar", " ", "2020">>,
     <<"31", " ", "Foo", " ", "2020">>, <<"31", " ", "02", " ", "2020">>,
     <<"30", " ", "February", " ", "2020">>}

\* len(potential_name.split()) of a heading
WordCount(heading) ==
    CASE heading = "" -> 0
      [] heading \in {"JOHN", "Director"} -> 1
      [] heading = "A SMITH" -> 2
      [] heading \in {"A SMITH Director", "Resigned A SMITH"} -> 3

\* line 320: the search for a role or date word in a heading
HasRoleWord(heading) ==
    heading \in {"Director", "A SMITH Director", "Resigned A SMITH"}

Fragments ==
    {f \in [keyword : BOOLEAN, heading : Headings,
            names : [1..3 -> FragmentNames \cup {Missing}],
            role : RoleTexts \cup {Missing},
            resigned : CapturedDates \cup {<<Missing>>}] :
        \* the heading, the role and the word Resigned are text of the fragment
        /\ (f.heading # Missing /\ HasRoleWord(f.heading)) => f.keyword
        /\ f.heading \in {"Director", "A SMITH Director"} => f.role # Missing
        /\ f.role # Missing => f.keyword
        /\ f.resigned # <<Missing>> => f.keyword}

\* no officer: parse_director_section returned None
NoOfficer ==
    [found |-> FALSE, name |-> "", officer_role |-> Missing, resigned_on |-> None]

\* line 315-322: the heading, when it reads like a name
HeadingName(fragment) ==
    IF /\ fragment.heading # Missing
       /\ ~HasRoleWord(fragment.heading)
       /\ WordCount(fragment.heading) >= 2
    THEN fragment.heading ELSE ""

\* mutant: a fragment without a name gets the name Unknown
GuessedName(fragment) ==
    IF HeadingName(fragment) # "" THEN HeadingName(fragment)
    ELSE LET matching == {k \in 1..3 : fragment.names[k] # Missing}
         IN IF matching = {} THEN "Unknown"
            ELSE fragment.names[CHOOSE k \in matching : \A l \in matching : k <= l]

\* line 313-337: the heading first, then the name patterns in their order
ExtractedName(fragment) ==
    IF HeadingName(fragment) # "" THEN HeadingName(fragment)
    ELSE LET matching == {k \in 1..3 : fragment.names[k] # Missing}
         IN IF matching = {} THEN ""
            ELSE fragment.names[CHOOSE k \in matching : \A l \in matching : k <= l]

\* a date as the officer's record shows it
Isoformat(date) == CASE date = <<2020, 3, 15>> -> "2020-03-15"

\* line 374-385: resigned_on is what parse_date makes of the captured text
ResignedOn(fragment) ==
    IF fragment.resigned = <<Missing>> THEN None
    ELSE IF ParseDate(fragment.resigned) = NoDate THEN None
    ELSE Isoformat(ParseDate(fragment.resigned))

\* line 302-446
ParseDirectorSection(fragment) ==
    IF ~fragment.keyword THEN NoOfficer
    ELSE IF ExtractedName(fragment) = "" THEN NoOfficer
    ELSE [found |-> TRUE, name |-> ExtractedName(fragment),
          officer_role |-> fragment.role, resigned_on |-> ResignedOn(fragment)]

\* the company page of a registry hit shows one fragment
InitParse ==
    /\ jobs = <<NewJob>>
    /\ runs = << >>
    /\ req = NoReq
    /\ events = 0
    /\ companies = [n \in CompanyNumbers |-> << >>]
    /\ officers = {}
    /\ merge = NoMerge
    /\ scrape = NoCall
    /\ wire = << >>
    /\ consolidation = NoConsolidation
    /\ contacts = NoContacts
    /\ dates = NoDates
    /\ \E f \in Fragments :
          parse = [pc |-> "fragment", fragment |-> f, officer |-> NoOfficer,
                   directors |-> << >>, active_directors |-> << >>]

\* extract_directors calls parse_director_section and keeps what is not
\* None (line 236-239, 284-292)
ParseFragment ==
    /\ parse.pc = "fragment"
    /\ LET director_data == ParseDirectorSection(parse.fragment)
       IN parse' = [parse EXCEPT
                       !.pc = "parsed",
                       !.officer = director_data,
                       !.directors = IF director_data.found
                                     THEN <<director_data>> ELSE << >>]
    /\ UNCHANGED <<jobVars, scrape, wire, consolidation, contacts, dates, merge>>

\* get_consolidated_company_data filters the directors of the company
\* (line 937-944)
FilterActive ==
    /\ parse.pc = "parsed"
    /\ parse' = [parse EXCEPT
                    !.pc = "listed",
                    !.active_directors = SelectSeq(parse.directors, IsActiveDirector)]
    /\ UNCHANGED <<jobVars, scrape, wire, consolidation, contacts, dates, merge>>

NextParse ==
    \/ ParseFragment
    \/ FilterActive

SpecParse == InitParse /\ [][NextParse]_vars

\* ---------------------------------------------------------------------
\* services.py: one pass of the loop of start_scraping_job, line 810-819
\* ---------------------------------------------------------------------

\* a dict is the function from its keys to their values

\* line 111-117: the candidates extract_search_result_data returns; the url
\* is urljoin(BASE_URL, href), never empty
Candidates ==
    {[name |-> "search:name", address |-> "search:address", url |-> "search:url",
      company_number |-> n, status |-> st] :
        n \in {"N1", "N2"}, st \in {"Active", "Dissolved"}}

\* line 140-169: what parse_company_page returns, companies_house_url and
\* whichever of the other fields the page shows
Details ==
    LET page == [companies_house_url |-> "search:url", name |-> "page:name",
                 company_number |-> "page:number", company_status |-> "page:status",
                 company_type |-> "page:type", directors |-> "page:directors"]
    IN {[k \in {"companies_house_url"} \cup shown |-> page[k]] :
            shown \in SUBSET (DOMAIN page \ {"companies_house_url"})}

\* scrape_company_details returned None (line 136-138); `if detailed_data`
\* (line 813) takes None and the empty dict alike
NoDetailedData == << >>

\* mutant: the candidate's value is kept where both have the key
Setdefault(company_result, detailed_data) ==
    [k \in DOMAIN company_result \cup DOMAIN detailed_data |->
        IF k \in DOMAIN company_result THEN company_result[k] ELSE detailed_data[k]]

\* line 814: company_result.update(detailed_data)
Update(company_result, detailed_data) ==
    [k \in DOMAIN company_result \cup DOMAIN detailed_data |->
        IF k \in DOMAIN detailed_data THEN detailed_data[k] ELSE company_result[k]]

\* the loop is at one candidate of the search
InitMerge ==
    /\ jobs = <<NewJob>>
    /\ runs = << >>
    /\ req = NoReq
    /\ events = 0
    /\ companies = [n \in CompanyNumbers |-> << >>]
    /\ officers = {}
    /\ scrape = NoCall
    /\ wire = << >>
    /\ consolidation = NoConsolidation
    /\ contacts = NoContacts
    /\ dates = NoDates
    /\ parse = NoParse
    /\ \E c \in Candidates :
          merge = [pc |-> "candidate", candidate |-> c, fetched |-> FALSE,
                   detailed_data |-> NoDetailedData, company_data |-> << >>]

\* line 811-817: the detail fetch when the candidate has a url, the update
\* when it returned something, and the call of save_company_data
HandOver ==
    /\ merge.pc = "candidate"
    /\ \E d \in Details \cup {NoDetailedData} :
          LET fetch == merge.candidate["url"] # ""
              detailed_data == IF fetch THEN d ELSE NoDetailedData
          IN merge' = [merge EXCEPT
                          !.pc = "handed",
                          !.fetched = fetch,
                          !.detailed_data = detailed_data,
                          !.company_data =
                              IF detailed_data # NoDetailedData
                              THEN Update(merge.candidate, detailed_data)
                              ELSE merge.candidate]
    /\ UNCHANGED <<jobVars, scrape, wire, consolidation, contacts, dates, parse>>

NextMerge == HandOver

SpecMerge == InitMerge /\ [][NextMerge]_vars

\* ---------------------------------------------------------------------
\* Properties of the job state machine
\* ---------------------------------------------------------------------

Row(r) == jobs[runs[r].job]
RowAfter(r) == jobs'[runs[r].job]

\* run r executes a statement in this step
Steps(r) == runs'[r] # runs[r]

\* a database statement of run r raises in this step
Raises(r) == Steps(r) /\ events' # events

\* C1: starting a job whose stored status is pending moves it to in_progress
\* with started_at set and progress 0 (when the statements of the
\* transaction succeed), the row is written in that same step, and the
\* search is issued only by a run that has made this transition.
C1_PendingToRunning ==
    [][\A r \in RunIds :
          /\ (runs[r].pc = "start" /\ Steps(r) /\ ~Raises(r)
                  /\ Row(r).status = "pending")
                => /\ RowAfter(r).status = "in_progress"
                   /\ RowAfter(r).started_at # None
                   /\ RowAfter(r).progress = 0
                   /\ runs'[r].pc = "search"
                   /\ runs'[r].local = RowAfter(r)
                   /\ runs'[r].results = << >>
          /\ (runs[r].pc = "search" /\ Steps(r))
                => /\ runs[r].bound
                   /\ runs[r].local.status = "in_progress"
                   /\ runs[r].local.started_at # None
                   /\ runs[r].local.progress = 0]_vars

\* a restarted job has been started again: its row is in_progress with
\* progress 0 and the run spawned by the restart is about to search
C1_Witness ==
    \E r \in RunIds :
        /\ r > 1
        /\ runs[r].pc = "search"
        /\ Row(r).status = "in_progress"
        /\ Row(r).progress = 0
        /\ Row(r).started_at = Now

\* C2: start_scraping_job on a job whose stored status is not pending changes
\* no field of the job, stores no company and no officer, and returns
\* without issuing a search or a fetch.
C2_NotPendingIsNoOp ==
    [][\A r \in RunIds :
          (runs[r].pc = "start" /\ Steps(r) /\ Row(r).status # "pending")
             => /\ jobs' = jobs
                /\ companies' = companies
                /\ officers' = officers
                /\ runs'[r].pc \in {"done", "except"}
                /\ (runs'[r].pc = "except" => ~runs'[r].bound)]_vars

\* a run found its job already running and returned; the job is still running
C2_Witness ==
    \E r \in RunIds :
        /\ runs[r].outcome = "not_pending"
        /\ Row(r).status = "in_progress"

\* C3: a cancelled job stays cancelled until a restart makes it pending, and
\* a completed job stays completed, whatever a run in flight writes.
C3_TerminalUntilRestart ==
    [][\A j \in JobIds :
          /\ jobs[j].status = "cancelled"
                => \/ jobs'[j].status = "cancelled"
                   \/ (jobs'[j].status = "pending" /\ req.kind = "restart")
          /\ jobs[j].status = "completed" => jobs'[j].status = "completed"]_vars

\* a run that has made its job in_progress and has not returned
Active(r) ==
    \/ runs[r].pc \in {"search", "loop", "candidate", "create"}
    \/ (runs[r].pc = "except" /\ runs[r].bound)

\* C4: at most one run is active on a job at any time.
C4_OneRunPerJob ==
    \A j \in JobIds :
        Cardinality({r \in RunIds : runs[r].job = j /\ Active(r)}) <= 1

\* C5: while the stored status is cancelled no run starts a per-candidate
\* iteration, and the iteration that was in flight hands nothing to
\* persistence.
C5_NoWorkAfterCancel ==
    [][\A r \in RunIds :
          Row(r).status = "cancelled"
             => /\ ~(runs[r].pc = "loop" /\ runs'[r].pc = "candidate")
                /\ (runs[r].pc \in {"candidate", "create"} /\ Steps(r))
                      => (companies' = companies /\ officers' = officers)]_vars

AllowedEdges ==
    {<<"pending", "in_progress">>, <<"in_progress", "completed">>,
     <<"in_progress", "failed">>, <<"in_progress", "cancelled">>,
     <<"failed", "pending">>, <<"cancelled", "pending">>}

\* C6: the stored status changes only along pending -> in_progress,
\* in_progress -> completed / failed / cancelled, and failed / cancelled ->
\* pending, the last two only by a restart.
C6_OnlyAllowedEdges ==
    [][\A j \in JobIds :
          jobs'[j].status # jobs[j].status
             => /\ <<jobs[j].status, jobs'[j].status>> \in AllowedEdges
                /\ (jobs'[j].status = "pending" => req.kind = "restart")]_vars

\* C7: when the search returns no candidate the run writes the job as failed
\* with a non-empty error message and a completion timestamp, progress is
\* the 0 set at the start, and the run has stored nothing.
C7_NoResultsFails ==
    [][\A r \in RunIds :
          (runs[r].pc = "search" /\ runs'[r].outcome = "no_results")
             => /\ RowAfter(r).status = "failed"
                /\ RowAfter(r).error_message # ""
                /\ RowAfter(r).completed_at # None
                /\ RowAfter(r).progress = 0
                /\ RowAfter(r).progress = runs[r].local.progress
                /\ runs[r].handed = << >>
                /\ companies' = companies
                /\ officers' = officers]_vars

\* a run ended on an empty search: the job is failed with the message of
\* line 796 and the Company table is empty
C7_Witness ==
    \E r \in RunIds :
        /\ runs[r].outcome = "no_results"
        /\ Row(r).status = "failed"
        /\ Row(r).error_message = NoCompaniesMessage
        /\ Row(r).completed_at = Now
        /\ Row(r).progress = 0
        /\ \A n \in CompanyNumbers : companies[n] = << >>

\* C8: a run whose N >= 1 candidates were all processed writes the job as
\* completed with progress 100 and a completion timestamp, and the records
\* handed to persistence are the N candidates, once each, in discovery order.
C8_AllProcessedCompletes ==
    [][\A r \in RunIds :
          (runs[r].pc = "loop" /\ runs'[r].pc = "done"
                  /\ runs[r].processed = Len(runs[r].results))
             => /\ Len(runs[r].results) >= 1
                /\ RowAfter(r).status = "completed"
                /\ RowAfter(r).progress = 100
                /\ RowAfter(r).completed_at # None
                /\ runs[r].handed = runs[r].results]_vars

\* a run completed after storing every company of a two-candidate search
C8_Witness ==
    \E r \in RunIds :
        /\ runs[r].outcome = "completed"
        /\ Row(r).status = "completed"
        /\ Row(r).progress = 100
        /\ Row(r).completed_at = Now
        /\ \A n \in CompanyNumbers : companies[n] = <<runs[r].job>>

\* C9: an exception while one candidate is processed leaves the job's row
\* alone and moves the loop to the next candidate; the run ends only after
\* the last candidate and then writes completed with progress 100, however
\* many candidates failed.
C9_CandidateFailureContinues ==
    [][\A r \in RunIds :
          /\ (runs[r].pc \in {"loop", "candidate"} /\ Raises(r)
                  /\ runs[r].idx < Len(runs[r].results))
                => /\ runs'[r].pc = "loop"
                   /\ runs'[r].idx = runs[r].idx + 1
                   /\ runs'[r].results = runs[r].results
                   /\ jobs' = jobs
          /\ (runs[r].pc = "loop" /\ runs'[r].pc = "done")
                => /\ runs[r].idx = Len(runs[r].results)
                   /\ RowAfter(r).status = "completed"
                   /\ RowAfter(r).progress = 100]_vars

\* a run completed although no company was stored: every candidate failed
C9_Witness ==
    \E r \in RunIds :
        /\ runs[r].outcome = "completed"
        /\ Row(r).status = "completed"
        /\ Row(r).progress = 100
        /\ events > 0
        /\ \A n \in CompanyNumbers : companies[n] = << >>

\* C10: a run that leaves the handler of line 833 has either written the job
\* as failed with the exception message and a completion timestamp, or the
\* fallback save itself raised.
C10_EscapedExceptionMarksFailed ==
    [][\A r \in RunIds :
          (runs[r].pc = "except" /\ Steps(r))
             => /\ runs'[r].pc = "done"
                /\ \/ Raises(r)
                   \/ /\ RowAfter(r).status = "failed"
                      /\ RowAfter(r).error_message = ExceptionMessage
                      /\ RowAfter(r).completed_at # None]_vars

\* C11: the stored progress is an integer in 0..100, and from one state in
\* which the job is in_progress to the next in which it still is, the stored
\* progress does not decrease, whatever cancel and restart requests
\* interleave with the progress writes.
C11_ProgressMonotoneWhileRunning ==
    [][\A j \in JobIds :
          /\ jobs'[j].progress \in 0..100
          /\ (jobs[j].status = "in_progress" /\ jobs'[j].status = "in_progress")
                => jobs'[j].progress >= jobs[j].progress]_vars

\* C12: a restart is accepted only for a job read as failed or cancelled; its
\* write leaves the job pending with progress 0, no started_at, no
\* completed_at and an empty error message, and starts one run.  A request
\* that is not accepted changes no field of any job, and no run is started
\* except by the write of an accepted restart.
C12_RestartResetsOrRejects ==
    [][/\ (req.kind = "none" /\ req'.kind = "restart")
            => jobs[req'.job].status \in {"failed", "cancelled"}
       /\ (req.kind = "restart" /\ req'.kind = "none")
            => /\ req.snap.status \in {"failed", "cancelled"}
               /\ jobs'[req.job].status = "pending"
               /\ jobs'[req.job].progress = 0
               /\ jobs'[req.job].started_at = None
               /\ jobs'[req.job].completed_at = None
               /\ jobs'[req.job].error_message = ""
               /\ Len(runs') = Len(runs) + 1
               /\ runs'[Len(runs')].job = req.job
               /\ runs'[Len(runs')].pc = "start"
       /\ (req.kind = "none" /\ req'.kind = "none" /\ events' # events
               /\ runs' = runs)
            => jobs' = jobs
       /\ Len(runs') # Len(runs) => req.kind = "restart"]_vars

\* a job that had failed on an empty search (with its error message and
\* completion time stored) has been restarted: it is pending again with
\* every field cleared, and the run of the restart has not yet begun
C12_Witness ==
    /\ Len(runs) = 2
    /\ runs[1].outcome = "no_results"
    /\ runs[2].pc = "start"
    /\ req.kind = "none"
    /\ jobs[1] = [status |-> "pending", progress |-> 0, started_at |-> None,
                  completed_at |-> None, error_message |-> ""]

\* run r has committed pending -> in_progress and has not returned
Started(r) ==
    \/ runs[r].pc \in {"search", "loop", "candidate", "create"}
    \/ (runs[r].pc = "except" /\ runs[r].local.status \in {"failed", "completed"})

\* C13 as stated: every run that has made its job in_progress returns, and
\* in the state in which it has returned the stored status is completed,
\* failed or cancelled.
C13_ReturnsWithTerminalStatus ==
    [][\A r \in RunIds :
          (Started(r) /\ runs'[r].pc = "done")
             => RowAfter(r).status \in {"completed", "failed", "cancelled"}]_vars

\* C13, amended: every run returns (from some point on every thread that
\* was ever started has returned, so in particular each one that made its
\* job in_progress), and the last statement of a run that had made its job
\* in_progress has written completed or failed to the job's row, unless
\* that statement is the fallback save and it raised: then the row is left
\* exactly as it was.
C13_ReturnsTerminalOrSwallowed ==
    /\ <>[](\A r \in RunIds : runs[r].pc = "done")
    /\ [][\A r \in RunIds :
             (Started(r) /\ runs'[r].pc = "done")
                => \/ RowAfter(r).status \in {"completed", "failed"}
                   \/ (runs[r].pc = "except" /\ Raises(r) /\ jobs' = jobs)]_vars

\* the final save of a run raised and the fallback save raised too: the run
\* has returned and its job is still in_progress
C13_Witness ==
    \E r \in RunIds :
        /\ runs[r].outcome = "swallowed"
        /\ Row(r).status = "in_progress"
        /\ events >= 2
        /\ \A q \in RunIds : runs[q].pc = "done"

\* C14: no registry number ever has two stored company records.  A run that
\* persists a candidate whose number is stored leaves that one record in
\* place with its fields updated (it now belongs to the run's job); a run
\* that persists a new number leaves exactly one record of it.  No step
\* removes a record.
C14_OneRecordPerNumber ==
    /\ [](\A n \in CompanyNumbers : Len(companies[n]) <= 1)
    /\ [][/\ \A n \in CompanyNumbers : Len(companies'[n]) >= Len(companies[n])
          /\ \A r \in RunIds :
                (runs[r].pc \in {"candidate", "create"} /\ runs'[r].pc = "loop"
                      /\ ~Raises(r))
                   => companies'[runs[r].results[runs[r].idx + 1]]
                         = <<runs[r].job>>]_vars

\* two jobs have stored the same two numbers and both have completed: each
\* number has one record, one of them re-attached to the job that stored
\* it last
C14_Witness ==
    /\ Len(jobs) = 2
    /\ \A r \in {1, 2} : runs[r].outcome = "completed"
    /\ companies[1] = <<1>>
    /\ companies[2] = <<2>>

\* ---------------------------------------------------------------------
\* Properties of the registry client
\* ---------------------------------------------------------------------

\* C15: the officer list returned for a company never holds two records
\* with the same name, whichever page the officers were extracted from (an
\* officers page, or the detail page itself by the inline fallback).
C15_NoTwoRecordsWithOneName ==
    \A i, j \in 1..Len(scrape.result.directors) :
        scrape.result.directors[i] = scrape.result.directors[j] => i = j

StepOrder == <<"constructed", "link", "inline">>
Rank(step) == CHOOSE k \in 1..3 : StepOrder[k] = step

\* the first non-empty list among the outcomes of the steps tried
FirstFound(tried) ==
    IF \E i \in 1..Len(tried) : tried[i].got # << >>
    THEN tried[CHOOSE i \in 1..Len(tried) :
                   /\ tried[i].got # << >>
                   /\ \A j \in 1..(i - 1) : tried[j].got = << >>].got
    ELSE << >>

\* C16: the steps of officer retrieval run in the order constructed URL,
\* discovered link, inline extraction; the first is tried exactly when the
\* detail URL holds a company number; a later step is tried only when every
\* step tried before it returned an empty list, and inline extraction is
\* then always tried; the list returned is the first non-empty one in that
\* order, or empty.
C16_FirstNonEmptyInOrder ==
    LET t == scrape.tried
        chainDone == scrape.pc = "cooldown"
                        \/ (scrape.pc = "ready" /\ scrape.result.found)
    IN /\ \A i, j \in 1..Len(t) : i < j => Rank(t[i].step) < Rank(t[j].step)
       /\ \A i, j \in 1..Len(t) : i < j => t[i].got = << >>
       /\ scrape.pc \in {"link", "inline", "cooldown"}
             => (scrape.has_number <=> \E i \in 1..Len(t) : t[i].step = "constructed")
       /\ chainDone
             => /\ (\E i \in 1..Len(t) : t[i].step = "inline")
                      <=> (\A i \in 1..Len(t) :
                              t[i].step # "inline" => t[i].got = << >>)
                /\ scrape.pc = "cooldown" => scrape.directors = FirstFound(t)
                /\ scrape.pc = "ready" => scrape.result.directors = FirstFound(t)

\* the constructed URL and the discovered link both gave no officer and the
\* inline extraction gave one: that list is what the call returned
C16_Witness ==
    /\ scrape.pc = "ready"
    /\ scrape.result.found
    /\ Len(scrape.tried) = 3
    /\ scrape.tried[1] = [step |-> "constructed", got |-> << >>]
    /\ scrape.tried[2] = [step |-> "link", got |-> << >>]
    /\ scrape.tried[3].step = "inline"
    /\ scrape.tried[3].got # << >>
    /\ scrape.result.directors = scrape.tried[3].got

\* C17: on the session of the client every request for a detail page or an
\* officers page, failed or not, is followed by a sleep before the next
\* request.
C17_CooldownAfterEveryFetch ==
    \A i \in 1..(Len(wire) - 1) :
        wire[i].kind \in {"detail", "officers"} => wire[i + 1].kind = "sleep"

\* C18: a request that fails raises nothing out of the client: the failed
\* search returns no hit, the failed detail request returns None, and the
\* failed officers request returns an empty list to extract_directors,
\* which goes on.
C18_FailedRequestIsCaught ==
    [][Len(wire') > Len(wire) /\ ~wire'[Len(wire) + 1].ok
          => LET kind == wire'[Len(wire) + 1].kind
             IN /\ ~scrape'.raised
                /\ kind = "search"
                      => (scrape'.left = 0 /\ scrape'.pc = "ready")
                /\ kind = "detail"
                      => (~scrape'.result.found /\ scrape'.pc = "ready"
                             /\ scrape'.result.directors = << >>)
                /\ kind = "officers"
                      => /\ scrape'.directors = << >>
                         /\ scrape'.tried[Len(scrape'.tried)].got = << >>
                         /\ scrape'.pc \in {"link", "inline"}]_vars

\* both officers requests of a call failed and the call still returned a
\* parsed page, after an earlier detail request had failed and returned None
C18_Witness ==
    /\ scrape.pc = "ready"
    /\ scrape.result.found
    /\ ~scrape.raised
    /\ \E i \in 1..Len(wire) : wire[i] = Request("detail", FALSE)
    /\ Cardinality({i \in 1..Len(wire) : wire[i] = Request("officers", FALSE)}) = 2

\* ---------------------------------------------------------------------
\* Properties of the consolidation
\* ---------------------------------------------------------------------

SourceOrder == <<"companies_house", "linkedin", "google", "crunchbase", "dandb">>

\* what a source has to offer to one call: its results up to its own cap,
\* nothing when its search failed
Offered(web, source) ==
    CASE source = "companies_house" ->
            IF web.registry_ok THEN Min(web.hits, 50) ELSE 0
      [] source = "linkedin" -> IF web.linkedin THEN 20 ELSE 0
      [] source = "google" -> IF web.google THEN 20 ELSE 0
      [] source = "crunchbase" -> IF web.crunchbase THEN 15 ELSE 0
      [] source = "dandb" -> IF web.dandb THEN 15 ELSE 0

RECURSIVE OfferedBefore(_, _)
OfferedBefore(web, k) ==
    IF k = 1 THEN 0
    ELSE OfferedBefore(web, k - 1) + Offered(web, SourceOrder[k - 1])

\* the place of the i-th element of the concatenation of what the sources
\* offer, in priority order
SourceAt(web, i) ==
    CHOOSE k \in 1..5 :
        /\ OfferedBefore(web, k) < i
        /\ i <= OfferedBefore(web, k) + Offered(web, SourceOrder[k])

\* C19: the list returned has at most max_results entries and is a prefix
\* of the concatenation, in source priority order (registry, LinkedIn,
\* Google, Crunchbase, D&B), of the results of each source in its discovery
\* order, each source capped by its own fixed cap (50, 20, 20, 15, 15)
\* whatever max_results is; so a source has an entry in the list only after
\* every result of every source before it.
C19_PrefixInSourceOrder ==
    consolidation.pc = "returned" =>
        LET R == consolidation.result
            web == consolidation.web
        IN /\ Len(R) <= consolidation.max_results
           /\ Len(R) <= OfferedBefore(web, 6)
           /\ \A i \in 1..Len(R) :
                 LET k == SourceAt(web, i)
                 IN /\ R[i].source = SourceOrder[k]
                    /\ R[i].index = i - OfferedBefore(web, k)

\* the registry found more than its cap and the caller asked for fewer than
\* all: the list holds the 50 registry results, the 20 of LinkedIn and the
\* first of Google, whose other results and the later sources are cut off
C19_Witness ==
    /\ consolidation.pc = "returned"
    /\ consolidation.web.hits = 51
    /\ consolidation.web.registry_ok
    /\ consolidation.web.dandb
    /\ consolidation.max_results = 71
    /\ Len(consolidation.result) = 71
    /\ consolidation.result[50] = [source |-> "companies_house", index |-> 50,
                                   directors |-> << >>]
    /\ consolidation.result[51].source = "linkedin"
    /\ consolidation.result[71] = [source |-> "google", index |-> 1,
                                   directors |-> << >>]

\* C20: an officer is among the directors of a returned entry only if the
\* entry is of the registry, the officer has no resignation date and the
\* role text contains "director" in some spelling of upper and lower case;
\* an entry of any other source has no directors.
C20_OnlyActiveRegistryDirectors ==
    consolidation.pc = "returned" =>
        \A i \in 1..Len(consolidation.result) :
            LET entry == consolidation.result[i]
            IN /\ entry.source # "companies_house" => entry.directors = << >>
               /\ \A k \in 1..Len(entry.directors) :
                     /\ entry.source = "companies_house"
                     /\ entry.directors[k].resigned_on = None
                     /\ entry.directors[k].officer_role \in {"Director", "DIRECTOR"}

\* the detail page of the first hit showed a resigned director and a
\* serving one spelt DIRECTOR: only the second is listed, and the entries of
\* the other sources follow without directors
C20_Witness ==
    /\ consolidation.pc = "returned"
    /\ consolidation.web.hits = 1
    /\ Len(consolidation.web.page) = 2
    /\ consolidation.web.page[1].resigned_on # None
    /\ consolidation.web.page[1].officer_role = "Director"
    /\ Len(consolidation.result) > 1
    /\ consolidation.result[1].directors =
          <<[name |-> "A SMITH", resigned_on |-> None, officer_role |-> "DIRECTOR"]>>
    /\ consolidation.result[2].source = "linkedin"
    /\ consolidation.result[2].directors = << >>

\* whether the search of a source failed in this call
Failed(web, source) ==
    CASE source = "companies_house" -> ~web.registry_ok
      [] source = "linkedin" -> ~web.linkedin
      [] source = "google" -> ~web.google
      [] source = "crunchbase" -> ~web.crunchbase
      [] source = "dandb" -> ~web.dandb

\* what a source gives when its search answers: its results in discovery
\* order, up to its cap
Answer(web, source) ==
    LET n == CASE source = "companies_house" -> Min(web.hits, 50)
               [] source \in {"linkedin", "google"} -> 20
               [] source \in {"crunchbase", "dandb"} -> 15
    IN [j \in 1..n |-> [source |-> source, index |-> j]]

\* the concatenation had every failing source answered with no results
RECURSIVE HadFailedFoundNothing(_, _)
HadFailedFoundNothing(web, k) ==
    IF k = 0 THEN << >>
    ELSE HadFailedFoundNothing(web, k - 1)
            \o (IF Failed(web, SourceOrder[k]) THEN << >>
                                                ELSE Answer(web, SourceOrder[k]))

\* C21: when the search of a source fails, the call still returns a list;
\* the list has no entry of the failing source, and the entries of the
\* other sources are the ones, in the order, that the call gives when the
\* failing source answers with no results.
C21_FailedSourceDropsOnlyItself ==
    consolidation.pc = "returned" =>
        LET R == consolidation.result
            web == consolidation.web
            others == HadFailedFoundNothing(web, 5)
        IN (\E k \in 1..5 : Failed(web, SourceOrder[k])) =>
              /\ \A i \in 1..Len(R) : ~Failed(web, R[i].source)
              /\ Len(R) = Min(consolidation.max_results, Len(others))
              /\ \A i \in 1..Len(R) :
                    /\ R[i].source = others[i].source
                    /\ R[i].index = others[i].index

\* LinkedIn and Crunchbase failed: the two registry hits are followed by
\* the 20 results of Google and the 15 of D&B
C21_Witness ==
    /\ consolidation.pc = "returned"
    /\ consolidation.web.registry_ok
    /\ consolidation.web.hits = 2
    /\ ~consolidation.web.linkedin
    /\ consolidation.web.google
    /\ ~consolidation.web.crunchbase
    /\ consolidation.web.dandb
    /\ consolidation.max_results = 50
    /\ Len(consolidation.result) = 37
    /\ consolidation.result[3].source = "google"
    /\ consolidation.result[23].source = "dandb"

\* ---------------------------------------------------------------------
\* Properties of the contact synthesizers
\* ---------------------------------------------------------------------

\* C22: every two answers of _generate_company_contacts for one company
\* name are the same list, the phone number included, whether one process
\* gave both or the process was started again in between.
C22_SameNameSameContacts ==
    contacts.fn = "company" =>
        \A i, j \in 1..Len(contacts.answers) :
            contacts.answers[i] = contacts.answers[j]

\* where the tokens of a name start and end
TokenStarts(s) == {i \in 1..Len(s) : s[i] # " " /\ (i = 1 \/ s[i - 1] = " ")}
TokenEnds(s) == {i \in 1..Len(s) : s[i] # " " /\ (i = Len(s) \/ s[i + 1] = " ")}
Least(S) == CHOOSE i \in S : \A j \in S : i <= j
Greatest(S) == CHOOSE i \in S : \A j \in S : i >= j
FirstToken(s) == SubSeq(s, Least(TokenStarts(s)), Least(TokenEnds(s)))
LastToken(s) == SubSeq(s, Greatest(TokenStarts(s)), Greatest(TokenEnds(s)))
StartsWith(s, prefix) ==
    Len(s) >= Len(prefix) /\ SubSeq(s, 1, Len(prefix)) = prefix

\* C23: _generate_director_contacts answers with contacts exactly when the
\* director's name has two tokens or more: then with one email that starts
\* with the first token, a dot and the last token, in lower case, and one
\* LinkedIn guess of the first and the last token; with the empty list for
\* a name of fewer than two tokens.
C23_ContactsIffTwoTokens ==
    contacts.fn = "director" =>
        \A i \in 1..Len(contacts.answers) :
            LET answer == contacts.answers[i]
                name == contacts.director_name
            IN IF Cardinality(TokenStarts(name)) >= 2
               THEN /\ Len(answer) = 2
                    /\ answer[1].type = "email"
                    /\ StartsWith(answer[1].value,
                                  LowerStr(FirstToken(name)) \o <<".">>
                                     \o LowerStr(LastToken(name)) \o <<"@">>)
                    /\ answer[2].type = "linkedin"
                    /\ answer[2].value =
                          <<"https://linkedin.com/in/">> \o LowerStr(FirstToken(name))
                             \o <<"-">> \o LowerStr(LastToken(name))
               ELSE answer = << >>

\* ---------------------------------------------------------------------
\* Properties of the parsers
\* ---------------------------------------------------------------------

\* C25: parse_date returns the same date for the four spellings of one
\* calendar date (day month-name year, day abbreviated-month year,
\* year-month-day, day/month/year), namely that date; for a string that is
\* in none of the formats, the empty string included, and for a day the
\* month does not have, it returns None.
C25_FourSpellingsOneDate ==
    dates.pc = "parsing" =>
        \A k \in 1..Len(dates.results) :
            IF /\ dates.day >= 1
               /\ dates.day <= (CASE dates.month = 2 ->
                                       IF dates.year = 2020 THEN 29 ELSE 28
                                  [] OTHER -> 31)
            THEN dates.results[k] = <<dates.year, dates.month, dates.day>>
            ELSE dates.results[k] = NoDate

\* 15 March 2020 has been parsed from all four of its spellings
C25_Witness ==
    /\ dates.pc = "parsing"
    /\ Len(dates.texts) = 4
    /\ dates.texts[4] = <<"15", "/", "03", "/", "2020">>
    /\ dates.results = <<<<2020, 3, 15>>, <<2020, 3, 15>>, <<2020, 3, 15>>,
                         <<2020, 3, 15>>>>

\* the names a fragment shows where the code looks for one
NamesShown(fragment) ==
    ((IF fragment.heading \in {"A SMITH"} THEN {fragment.heading} ELSE {})
        \cup {fragment.names[k] : k \in 1..3}) \ {Missing}

\* C24: parse_director_section returns nothing for a fragment whose text
\* has none of the keywords, and for a fragment that shows no name, neither
\* in a heading of two words or more without a role or date word nor to one
\* of the name patterns; the record it returns has a name that is not empty
\* and is one the fragment shows.
C24_NoKeywordOrNoNameNoRecord ==
    parse.pc \in {"parsed", "listed"} =>
        /\ ~parse.fragment.keyword => ~parse.officer.found
        /\ NamesShown(parse.fragment) = {} => ~parse.officer.found
        /\ parse.officer.found =>
              /\ parse.officer.name # ""
              /\ parse.officer.name \in NamesShown(parse.fragment)
        /\ Len(parse.directors) = (IF parse.officer.found THEN 1 ELSE 0)

\* a fragment with the keyword, a heading that is a role and a name only to
\* the third pattern gives a record with that name
C24_Witness ==
    /\ parse.pc = "parsed"
    /\ parse.fragment.keyword
    /\ parse.fragment.heading = "Director"
    /\ parse.fragment.names = <<Missing, Missing, "B JONES">>
    /\ parse.officer.found
    /\ parse.officer.name = "B JONES"

\* C29: an officer whose fragment matches a resignation pattern is not
\* among the active directors of the company, whether or not the captured
\* text is a date.
C29_ResignedNeverListed ==
    (parse.pc = "listed" /\ parse.fragment.resigned # <<Missing>>) =>
        parse.active_directors = << >>

\* C27: the record handed to save_company_data has the keys of the
\* candidate and of the detail; a key of the detail has the detail's
\* value, any other key the candidate's; when the detail fetch returned
\* nothing the record is the candidate as the search gave it; and without a
\* url on the candidate no detail is fetched.
C27_DetailMergedOverCandidate ==
    merge.pc = "handed" =>
        LET candidate == merge.candidate
            detail == merge.detailed_data
            handed == merge.company_data
        IN /\ DOMAIN handed = DOMAIN candidate \cup DOMAIN detail
           /\ \A k \in DOMAIN detail : handed[k] = detail[k]
           /\ \A k \in DOMAIN candidate \ DOMAIN detail : handed[k] = candidate[k]
           /\ DOMAIN detail = {} => handed = candidate
           /\ candidate["url"] = "" => ~merge.fetched

\* the page showed a name and a number: they replace the candidate's, the
\* status and the address of the search are kept
C27_Witness ==
    /\ merge.pc = "handed"
    /\ merge.fetched
    /\ DOMAIN merge.detailed_data = {"companies_house_url", "name", "company_number"}
    /\ merge.candidate["company_number"] = "N1"
    /\ merge.company_data["name"] = "page:name"
    /\ merge.company_data["company_number"] = "page:number"
    /\ merge.company_data["status"] = "Active"
    /\ merge.company_data["address"] = "search:address"

\* ---------------------------------------------------------------------
\* Further properties of the job state machine
\* ---------------------------------------------------------------------

\* C26: the progress written just before the candidate at 0-based index i
\* of total is processed is floor(i / total * 100), also when an earlier
\* candidate of the run failed.
C26_ProgressByIndex ==
    [][\A r \in RunIds :
          (runs[r].pc = "loop" /\ runs'[r].pc = "candidate")
              => RowAfter(r).progress =
                    (runs[r].idx * 100) \div Len(runs[r].results)]_vars

\* C28: in every reachable state a job stored as completed has progress
\* 100 and both timestamps, and a job stored as pending has progress 0 and
\* neither timestamp.
C28_StatusFitsProgressAndTimes ==
    \A j \in JobIds :
        /\ jobs[j].status = "completed" =>
              /\ jobs[j].progress = 100
              /\ jobs[j].started_at # None
              /\ jobs[j].completed_at # None
        /\ jobs[j].status = "pending" =>
              /\ jobs[j].progress = 0
              /\ jobs[j].started_at = None
              /\ jobs[j].completed_at = None

\* C30: a stored company has one job, the one whose run stored its number
\* last: a run that stores a number, new or known, leaves the record of
\* that number attached to its own job, so a record of a finished job can
\* pass to another job; and no step of a run removes a company or an
\* officer.
C30_AttachedToLastJob ==
    [][/\ \A r \in RunIds :
             runs'[r].processed = runs[r].processed + 1
                 => companies'[runs[r].results[runs[r].idx + 1]] = <<runs[r].job>>
       /\ \A n \in CompanyNumbers :
             /\ Len(companies'[n]) >= Len(companies[n])
             /\ companies'[n] # companies[n]
                   => \E r \in RunIds :
                         /\ runs'[r].processed = runs[r].processed + 1
                         /\ runs[r].results[runs[r].idx + 1] = n
       /\ officers \subseteq officers']_vars

\* job 1 has completed without a failure, so it stored company 1, and the
\* record of company 1, with its officers, is now attached to job 2
C30_Witness ==
    /\ Len(jobs) = 2
    /\ runs[1].outcome = "completed"
    /\ jobs[1].status = "completed"
    /\ events = 0
    /\ companies[1] = <<2>>
    /\ \E o \in OfficerNames : <<1, o>> \in officers

TypeOK ==
    /\ \A j \in JobIds : jobs[j].status \in STATUS_CHOICES
    /\ \A r \in RunIds : runs[r].job \in JobIds
    /\ events \in 0..MaxEvents
====
